---------------------------- MODULE Spec2Model ----------------------------
(***************************************************************************)
(* Budget Tracker Pro (src/bt.py): a Streamlit script.  Every user action  *)
(* reruns the whole script top to bottom over the session state            *)
(* (transactions, budgets, recurring) and the widget state (file uploader, *)
(* edit index, budget inputs).  The model follows the script section by    *)
(* section; `pc` is the section the running pass is about to execute.      *)
(***************************************************************************)
EXTENDS Integers, Sequences, FiniteSets, TLC

(***************************************************************************)
(* Bounds of the model.                                                    *)
(***************************************************************************)
MaxRows == 2        \* longest store explored
MaxRules == 2       \* longest recurring rule list explored
MaxTime == 3        \* readings of the clock explored: 1..MaxTime
MaxTableRows == 1   \* rows of the raw tables fed to ensure_schema on its own

(***************************************************************************)
(* Config (lines 12-13).                                                   *)
(***************************************************************************)
REQUIRED_COLS == <<"Date", "Type", "Category", "Description", "Amount">>
CATEGORY_OPTIONS == <<"Food", "Transport", "Bills", "Entertainment", "Other">>
TYPE_OPTIONS == <<"Income", "Expense">>

Range(s) == {s[i] : i \in DOMAIN s}

(***************************************************************************)
(* Cells.  A Date or Amount cell is a tagged record: what pandas holds     *)
(* before and after coercion.  Text cells (Type, Category, Description and *)
(* extra columns) are strings; NA is the float NaN pandas puts in an       *)
(* object column for a missing value.                                      *)
(*   Date:   ts  = the timestamp v             str = text spelling one     *)
(*           bad = text that is no date        nat = NaT                   *)
(*   Amount: num = the number v                str = text spelling v       *)
(*           bad = text that is no number      nan = NaN                   *)
(***************************************************************************)
Ts(t) == [tag |-> "ts", v |-> t]
NaT == [tag |-> "nat", v |-> 0]
Num(n) == [tag |-> "num", v |-> n]
NaN == [tag |-> "nan", v |-> 0]
NA == "<NaN>"

\* to_datetime as errors="ignore" would have it: what does not parse is kept
to_datetime_ignore(c) == IF c.tag = "str" THEN Ts(c.v) ELSE c

\* pd.to_datetime(..., errors="coerce"), one cell (line 31)
to_datetime(c) ==
    IF c.tag = "ts" THEN c
    ELSE IF c.tag = "str" THEN Ts(c.v)
    ELSE NaT

\* pd.to_numeric(..., errors="coerce"), one cell (line 32)
to_numeric(c) ==
    IF c.tag = "num" THEN c
    ELSE IF c.tag = "str" THEN Num(c.v)
    ELSE NaN

\* the empty typed Series assigned to a missing column (lines 24-29):
\* aligned to the frame's index it is all-null
MissingCell(col) ==
    IF col = "Date" THEN NaT ELSE IF col = "Amount" THEN NaN ELSE NA

\* a DataFrame: its column labels in order and its rows (column -> cell);
\* NotAFrame is None or any other value that is no DataFrame
DataFrame(cols, rows) == [frame |-> TRUE, columns |-> cols, rows |-> rows]
NotAFrame == [frame |-> FALSE, columns |-> <<>>, rows |-> <<>>]

\* lines 23-29 for one column
AddColumn(df, col) ==
    IF col \in Range(df.columns) THEN df
    ELSE DataFrame(Append(df.columns, col),
                   [i \in DOMAIN df.rows |->
                      [c \in DOMAIN df.rows[i] \cup {col} |->
                         IF c = col THEN MissingCell(col) ELSE df.rows[i][c]]])

\* the loop of lines 22-29 over REQUIRED_COLS[i..]
RECURSIVE AddMissing(_, _)
AddMissing(df, i) ==
    IF i > Len(REQUIRED_COLS) THEN df
    ELSE AddMissing(AddColumn(df, REQUIRED_COLS[i]), i + 1)

\* lines 30-32 on one row: keep the five columns, coerce Date and Amount
CoerceRow(r) ==
    [Date |-> to_datetime(r["Date"]),
     Type |-> r["Type"],
     Category |-> r["Category"],
     Description |-> r["Description"],
     Amount |-> to_numeric(r["Amount"])]

ensure_schema(df) ==
    LET df0 == IF ~df.frame THEN DataFrame(REQUIRED_COLS, <<>>) ELSE df   \* lines 20-21
        full == AddMissing(df0, 1)
    IN  DataFrame(REQUIRED_COLS, [i \in DOMAIN full.rows |-> CoerceRow(full.rows[i])])


(***************************************************************************)
(* Inputs explored.  The forms offer Income/Expense, the fixed categories  *)
(* and a non-negative amount; uploads are a few concrete files.            *)
(***************************************************************************)
Types == Range(TYPE_OPTIONS)
FormCats == {"Food"}                 \* categories picked in the select boxes
Descs == {"rent", "gym"}             \* descriptions typed
Amounts == {0, 1}                    \* amounts typed (min_value = 0.0)
Limits == {0, 1}                     \* budget inputs typed (min_value = 0.0)
BudgetCats == {"Food"}               \* budget inputs the user touches

\* an uploaded file: its name (stem, suffix), what its bytes really are, and the
\* table a matching reader gets from them (for garbage: rows read before the error)
Files ==
    << [name |-> <<"a", "csv">>, content |-> "csv",
        table |-> DataFrame(<<"Note", "Amount", "Description", "Category", "Type", "Date">>,
                    << [Note |-> "x", Amount |-> Num(1), Description |-> "rent",
                        Category |-> "Food", Type |-> "Expense",
                        Date |-> [tag |-> "str", v |-> 1]] >>)],
       [name |-> <<"b", "csv">>, content |-> "csv",
        table |-> DataFrame(REQUIRED_COLS,
                    << [Date |-> [tag |-> "bad", v |-> 0], Type |-> "Transfer",
                        Category |-> "Misc", Description |-> "gym",
                        Amount |-> Num(1)] >>)],
       [name |-> <<"c", "xlsx">>, content |-> "xlsx",
        table |-> DataFrame(<<"Date", "Type", "Category", "Amount">>,
                    << [Date |-> Ts(MaxTime), Type |-> "Income", Category |-> "Food",
                        Amount |-> Num(1)] >>)],
       [name |-> <<"d", "csv">>, content |-> "garbage",
        table |-> DataFrame(REQUIRED_COLS,
                    << [Date |-> Ts(1), Type |-> "Expense", Category |-> "Food",
                        Description |-> "gym", Amount |-> Num(1)] >>)] >>

(***************************************************************************)
(* State.                                                                  *)
(***************************************************************************)
VARIABLES
    transactions,   \* st.session_state["transactions"]: the rows, in index order
    budgets,        \* st.session_state["budgets"]: category -> limit, 0 for None
    recurring,      \* st.session_state["recurring"]: the list of rules
    uploaded,       \* file_uploader widget: 0 (no file) or an index of Files
    edit_index,     \* number_input widget of the edit section
    index_len,      \* the store length that widget was last rendered for (0: not rendered)
    bud_input,      \* number_input widgets bud_<cat>
    now,            \* the clock: what datetime.now() returns when it is called
    now_month,      \* the label of line 156, 0 outside the reconciliation section
    current_month,  \* the label of line 270, 0 until the pass has computed it
    pc,             \* the section the running pass executes next; "idle" between passes
    ev,             \* the button pressed, until its section has served it: "none",
                    \* "add", "recurring", "edit" or "reset"
    rec_i,          \* position of the reconciliation loop in the rule list
    pre_rec,        \* the store as the reconciliation loop found it
    form_shown,     \* the last pass rendered the edit form (Save Changes is there)
    import_failed,  \* st.error("Import failed: ...") was shown in this pass
    updated,        \* st.success("Transaction Updated!") was shown in this pass
    uncaught,       \* the pass ended in an uncaught exception
    status,         \* Budget Check output: category -> "over" | "within" | "none"
    balance,        \* the Balance column of the line chart, <<>> when not drawn
    inserted,       \* per rule: rows appended for it by reconciliation in this period
    upload_rows,    \* rows appended from the file now selected in the uploader
    probe           \* ensure_schema applied on its own (see SchemaSpec)

vars == <<transactions, budgets, recurring, uploaded, edit_index, index_len, bud_input, now,
          pc, ev, rec_i, pre_rec, form_shown, import_failed, updated, uncaught,
          status, balance, inserted, upload_rows, probe, now_month, current_month>>

Cats == Range(CATEGORY_OPTIONS)
NoBudgets == [c \in Cats |-> 0]
NoStatus == [c \in Cats |-> "none"]
\* what a form holds when its button is pressed
FormInput(t, c, a, d) == [Type |-> t, Category |-> c, Amount |-> a, Description |-> d]
FormInputs ==
    {FormInput(t, c, a, d) : t \in Types, c \in FormCats, a \in Amounts, d \in Descs}
\* edits to a zero amount are not explored
EditInputs == {e \in FormInputs : e.Amount > 0}
NoProbe == [stage |-> 0, T |-> DataFrame(<<>>, <<>>),
            once |-> DataFrame(<<>>, <<>>), twice |-> DataFrame(<<>>, <<>>)]


(***************************************************************************)
(* The sections of the script as functions of the state they read.         *)
(***************************************************************************)

\* strftime("%B %Y") of a timestamp (lines 156, 162, 270, 271): its calendar
\* period; two successive clock readings share one
Period(t) == (t + 1) \div 2

\* the one-row frame built with datetime.now() (lines 124, 167)
NewRow(t, c, d, a, p) ==
    [Date |-> Ts(p), Type |-> t, Category |-> c, Description |-> d, Amount |-> Num(a)]

\* pd.concat([store, rows], ignore_index=True) (lines 125, 169, 213)
concat(store, rows) == store \o rows

\* Add Transaction (lines 123-126)
AddTransaction(store, submit, e, p) ==
    IF submit /\ e.Amount > 0
    THEN concat(store, <<NewRow(e.Type, e.Category, e.Description, e.Amount, p)>>)
    ELSE store

\* Recurring form (lines 143-145)
AddRecurring(rules, add_rec, e) ==
    IF add_rec /\ e.Amount > 0
    THEN Append(rules, [Type |-> e.Type, Category |-> e.Category,
                        Amount |-> e.Amount, Description |-> e.Description])
    ELSE rules

\* Date.dt.strftime("%B %Y") == now_month: NaT formats to NaN and never matches
InPeriod(r, p) == r.Date.tag = "ts" /\ Period(r.Date.v) = p

\* the existence check without the month condition of line 162
ExistsAnyMonth(store, rec, p) ==
    \E k \in DOMAIN store :
        /\ store[k].Description = rec.Description
        /\ store[k].Category = rec.Category

\* the `exists` of lines 158-165
Exists(store, rec, p) ==
    IF store # <<>>
    THEN \E k \in DOMAIN store :
            /\ store[k].Description = rec.Description
            /\ store[k].Category = rec.Category
            /\ InPeriod(store[k], p)
    ELSE FALSE

\* one iteration of the loop of line 157 (lines 158-169): the rows are matched
\* against the label of line 156, the new row is dated by the clock at line 167
ReconcileOne(store, rec, label, t) ==
    IF ~Exists(store, rec, label)
    THEN concat(store, <<NewRow(rec.Type, rec.Category, rec.Description, rec.Amount, t)>>)
    ELSE store

\* the loop of line 157 from rule i on, the clock standing at t
RECURSIVE ReconcileFrom(_, _, _, _, _)
ReconcileFrom(store, rules, i, label, t) ==
    IF i > Len(rules) THEN store
    ELSE ReconcileFrom(ReconcileOne(store, rules[i], label, t), rules, i + 1, label, t)

\* Budget Goals (lines 176-180): the session budgets follow the inputs
BudgetGoals(inputs) == [c \in Cats |-> IF inputs[c] > 0 THEN inputs[c] ELSE 0]

\* pd.read_csv / pd.read_excel: the table, or an exception
read_csv(f) == [ok |-> f.content = "csv", df |-> f.table]
read_excel(f) == [ok |-> f.content = "xlsx", df |-> f.table]

\* the import appending what was read before the parser gave up
ImportPartial(store, f) ==
    LET read == IF f.name[Len(f.name)] = "csv" THEN read_csv(f) ELSE read_excel(f)
    IN  [store |-> concat(store, ensure_schema(read.df).rows), failed |-> ~read.ok]

\* the try block of lines 207-216: the store it leaves and whether it failed
Import(store, f) ==
    LET read == IF f.name[Len(f.name)] = "csv" THEN read_csv(f) ELSE read_excel(f)
    IN  IF read.ok
        THEN [store |-> concat(store, ensure_schema(read.df).rows), failed |-> FALSE]
        ELSE [store |-> store, failed |-> TRUE]

\* lines 249 and 251: list.index raises ValueError for a value not in the list
EditFormRaises(row) ==
    \/ row.Type \notin Range(TYPE_OPTIONS)
    \/ row.Category \notin Range(CATEGORY_OPTIONS)

\* A widget without a key is identified by its label and arguments.  The index
\* input (line 244) has max_value = len-1: rendered for another length it is a
\* new widget and returns its default, min_value.
IndexInput(store, idx, shown_len) == IF Len(store) = shown_len THEN idx ELSE 0

\* The inputs of edit_form (lines 249-254) take their defaults from the row:
\* one whose default is the one it was submitted with returns the submitted
\* value, another is a new widget and returns its default.
FormValues(row, shown, e) ==
    [Type |-> IF row.Type = shown.Type THEN e.Type ELSE row.Type,
     Category |-> IF row.Category = shown.Category THEN e.Category ELSE row.Category,
     Amount |-> IF row.Amount = shown.Amount THEN Num(e.Amount) ELSE row.Amount,
     Description |-> IF row.Description = shown.Description
                     THEN e.Description ELSE row.Description]

\* the .at assignments at label k+1: past the last row, .at enlarges the frame
update_at_next(store, k, f, p) ==
    LET row == [Date |-> Ts(p), Type |-> f.Type, Category |-> f.Category,
                Description |-> f.Description, Amount |-> f.Amount]
    IN  IF k + 2 <= Len(store) THEN [store EXCEPT ![k + 2] = row]
        ELSE Append(store, row)

\* lines 257-261: the .at assignments at an existing label
update_at(store, k, f, p) ==
    [store EXCEPT ![k + 1] =
        [Date |-> Ts(p), Type |-> f.Type, Category |-> f.Category,
         Description |-> f.Description, Amount |-> f.Amount]]

\* Series.sum() of the Amount column: NaN is skipped
RECURSIVE SumAmount(_)
SumAmount(rows) ==
    IF rows = <<>> THEN 0
    ELSE (IF Head(rows).Amount.tag = "num" THEN Head(rows).Amount.v ELSE 0)
         + SumAmount(Tail(rows))

\* line 271
MonthDf(store, p) ==
    LET keep(r) == InPeriod(r, p) IN SelectSeq(store, keep)

\* lines 286-288
Spent(mdf, cat) ==
    LET keep(r) == r.Type = "Expense" /\ r.Category = cat
    IN  SumAmount(SelectSeq(mdf, keep))

\* Budget Check (lines 285-294): what is shown for each category
BudgetCheck(store, limits, p) ==
    IF MonthDf(store, p) # <<>>
    THEN [c \in Cats |->
            IF limits[c] # 0 /\ Spent(MonthDf(store, p), c) > limits[c] THEN "over"
            ELSE IF limits[c] # 0 THEN "within"
            ELSE "none"]
    ELSE NoStatus

\* sort_values("Date") (line 325): ascending, NaT last.  The default kind is
\* quicksort, which is not stable: rows with equal dates come in any order.
DateLE(a, b) == b.tag = "nat" \/ (a.tag = "ts" /\ a.v <= b.v)
Orders(n) == {q \in [1 .. n -> 1 .. n] : \A i, j \in 1 .. n : i # j => q[i] # q[j]}
sort_values(rows) ==
    { [i \in 1 .. Len(rows) |-> rows[q[i]]] :
        q \in {o \in Orders(Len(rows)) :
                 \A i \in 1 .. (Len(rows) - 1) :
                     DateLE(rows[o[i]].Date, rows[o[i + 1]].Date)} }

\* line 327
Delta(r) ==
    IF r.Amount.tag # "num" THEN NaN
    ELSE IF r.Type = "Income" THEN Num(r.Amount.v) ELSE Num(0 - r.Amount.v)

\* Series.cumsum() (line 328): a NaN stays NaN and is left out of the running sum
RECURSIVE cumsum(_, _)
cumsum(rows, acc) ==
    IF rows = <<>> THEN <<>>
    ELSE LET d == Delta(Head(rows))
         IN  IF d.tag = "num"
             THEN <<Num(acc + d.v)>> \o cumsum(Tail(rows), acc + d.v)
             ELSE <<NaN>> \o cumsum(Tail(rows), acc)

\* the Balance column (lines 325-328), for each order the sort may give
Balance(store) == {cumsum(sorted, 0) : sorted \in sort_values(store)}


(***************************************************************************)
(* The session.  Init is a fresh session about to run the script for the   *)
(* first time (lines 38-48).                                               *)
(***************************************************************************)
Init ==
    /\ transactions = <<>>
    /\ budgets = NoBudgets
    /\ recurring = <<>>
    /\ uploaded = 0
    /\ edit_index = 0
    /\ index_len = 0
    /\ bud_input = NoBudgets
    /\ now = 1
    /\ pc = "schema"
    /\ ev = "none"
    /\ rec_i = 1
    /\ pre_rec = <<>>
    /\ form_shown = FALSE
    /\ import_failed = FALSE
    /\ updated = FALSE
    /\ uncaught = FALSE
    /\ status = NoStatus
    /\ balance = <<>>
    /\ inserted = <<>>
    /\ upload_rows = 0
    /\ probe = NoProbe
    /\ now_month = 0
    /\ current_month = 0

\* the rest of the pass from the reconciliation loop to the import, on the store,
\* if the clock stands still
PassFrom(store, rules, up) ==
    LET s1 == ReconcileFrom(store, rules, 1, Period(now), now)
    IN  IF up = 0 THEN s1 ELSE Import(s1, Files[up]).store

\* an interaction reruns the script; the page is rebuilt from scratch.
\* Interactions that would take the store past `cap` rows are not explored.
StartPass(e, up, cap) ==
    /\ pc = "idle"
    /\ \/ e = "reset" /\ Len(PassFrom(<<>>, <<>>, up)) <= cap
       \/ e # "reset" /\ Len(PassFrom(transactions, recurring, up)) <= cap
    /\ pc' = "schema"
    /\ ev' = e
    /\ uploaded' = up
    /\ form_shown' = FALSE
    /\ import_failed' = FALSE
    /\ updated' = FALSE
    /\ uncaught' = FALSE
    /\ status' = NoStatus
    /\ balance' = <<>>
    /\ current_month' = 0
    /\ UNCHANGED <<transactions, budgets, recurring, now, rec_i, pre_rec, inserted, probe,
                   now_month>>

\* "Add" of transaction_form pressed (line 121)
SubmitAddCap(cap) ==
    /\ StartPass("add", uploaded, cap)
    /\ UNCHANGED <<edit_index, index_len, bud_input, upload_rows>>
SubmitAdd == SubmitAddCap(MaxRows)

\* "Add Recurring" of recurring_form pressed (line 141)
SubmitRecurringCap(cap) ==
    /\ StartPass("recurring", uploaded, cap)
    /\ UNCHANGED <<edit_index, index_len, bud_input, upload_rows>>
SubmitRecurring == SubmitRecurringCap(MaxRows)

\* "Save Changes" of edit_form pressed (line 255): the form must be on the page
SaveEditCap(cap) ==
    /\ form_shown
    /\ StartPass("edit", uploaded, cap)
    /\ UNCHANGED <<edit_index, index_len, bud_input, upload_rows>>
SaveEdit == SaveEditCap(MaxRows)

\* the index input changed (line 244): it offers 0 .. max_value as rendered
SetEditIndex ==
    \E k \in 0 .. (index_len - 1) :
        /\ k # edit_index
        /\ StartPass("none", uploaded, MaxRows)
        /\ edit_index' = k
        /\ UNCHANGED <<index_len, bud_input, upload_rows>>

\* a budget input changed (line 179)
SetBudget ==
    \E c \in BudgetCats, v \in Limits :
        /\ v # bud_input[c]
        /\ StartPass("none", uploaded, MaxRows)
        /\ bud_input' = [bud_input EXCEPT ![c] = v]
        /\ UNCHANGED <<edit_index, index_len, upload_rows>>

\* a file was dropped on the uploader, or the selected one removed (line 205)
Upload ==
    \E f \in 0 .. Len(Files) :
        /\ f # uploaded
        /\ StartPass("none", f, MaxRows)
        /\ upload_rows' = 0
        /\ UNCHANGED <<edit_index, index_len, bud_input>>

\* "Reset Data" pressed (line 77)
ClickReset ==
    /\ StartPass("reset", uploaded, MaxRows)
    /\ UNCHANGED <<edit_index, index_len, bud_input, upload_rows>>

\* any other widget changed: currency, theme, a filter (lines 60-99)
InteractCap(cap) ==
    /\ StartPass("none", uploaded, cap)
    /\ UNCHANGED <<edit_index, index_len, bud_input, upload_rows>>
Interact == InteractCap(MaxRows)

\* the clock moves on, between two passes or between two statements of one
Tick ==
    /\ now < MaxTime
    /\ now' = now + 1
    /\ inserted' = IF Period(now') # Period(now)
                   THEN [k \in DOMAIN inserted |-> 0] ELSE inserted
    /\ UNCHANGED <<transactions, budgets, recurring, uploaded, edit_index, index_len, bud_input,
                   pc, ev, rec_i, pre_rec, form_shown, import_failed, updated, uncaught,
                   status, balance, upload_rows, probe, now_month, current_month>>

(***************************************************************************)
(* One pass of the script, section by section.                             *)
(***************************************************************************)

\* line 50
EnsureSchemaStep ==
    /\ pc = "schema"
    /\ transactions' = ensure_schema(DataFrame(REQUIRED_COLS, transactions)).rows
    /\ pc' = "reset"
    /\ UNCHANGED <<budgets, recurring, uploaded, edit_index, index_len, bud_input, now, ev, rec_i,
                   pre_rec, form_shown, import_failed, updated, uncaught, status, balance,
                   inserted, upload_rows, probe, now_month, current_month>>

\* lines 77-80: the three keys are popped and st.rerun() starts the script over,
\* where lines 38-48 set them afresh
ResetStep ==
    /\ pc = "reset"
    /\ IF ev = "reset"
       THEN /\ transactions' = <<>>
            /\ budgets' = NoBudgets
            /\ recurring' = <<>>
            /\ inserted' = <<>>
            /\ upload_rows' = 0
            /\ ev' = "none"
            /\ pc' = "schema"
       ELSE /\ pc' = "add"
            /\ UNCHANGED <<transactions, budgets, recurring, inserted, upload_rows, ev>>
    /\ UNCHANGED <<uploaded, edit_index, index_len, bud_input, now, rec_i, pre_rec, form_shown,
                   import_failed, updated, uncaught, status, balance, probe, now_month, current_month>>

\* lines 111-126: the form's inputs are read, and served if "Add" was pressed.
\* Inputs that would take the store past `cap` rows are not explored.
AddStepCap(cap) ==
    /\ pc = "add"
    /\ \E e \in FormInputs :
        /\ transactions' = AddTransaction(transactions, ev = "add", e, now)
        /\ Len(PassFrom(transactions', recurring, uploaded)) <= cap
    /\ ev' = IF ev = "add" THEN "none" ELSE ev
    /\ pc' = "rec_form"
    /\ UNCHANGED <<budgets, recurring, uploaded, edit_index, index_len, bud_input, now, rec_i,
                   pre_rec, form_shown, import_failed, updated, uncaught, status, balance,
                   inserted, upload_rows, probe, now_month, current_month>>

AddStep == AddStepCap(MaxRows)

\* lines 132-156: likewise for "Add Recurring".  Inputs that would take the rule
\* list past MaxRules or the store past `cap` rows are not explored.
RecurringStepCap(cap) ==
    /\ pc = "rec_form"
    /\ \E e \in FormInputs :
        /\ recurring' = AddRecurring(recurring, ev = "recurring", e)
        /\ Len(recurring') <= MaxRules
        /\ Len(PassFrom(transactions, recurring', uploaded)) <= cap
    /\ inserted' = IF Len(recurring') > Len(recurring) THEN Append(inserted, 0) ELSE inserted
    /\ rec_i' = 1
    /\ pre_rec' = transactions
    /\ ev' = IF ev = "recurring" THEN "none" ELSE ev
    /\ now_month' = Period(now)
    /\ pc' = "reconcile"
    /\ UNCHANGED <<transactions, budgets, uploaded, edit_index, index_len, bud_input, now,
                   form_shown, import_failed, updated, uncaught, status, balance, upload_rows,
                   probe, current_month>>

RecurringStep == RecurringStepCap(MaxRows)

\* lines 157-169, one rule
ReconcileStep ==
    /\ pc = "reconcile"
    /\ rec_i <= Len(recurring)
    /\ transactions' = ReconcileOne(transactions, recurring[rec_i], now_month, now)
    /\ inserted' = [inserted EXCEPT ![rec_i] = @ + Len(transactions') - Len(transactions)]
    /\ rec_i' = rec_i + 1
    /\ UNCHANGED <<budgets, recurring, uploaded, edit_index, index_len, bud_input, now, pc, ev,
                   pre_rec, form_shown, import_failed, updated, uncaught, status, balance,
                   upload_rows, probe, now_month, current_month>>

\* the loop of line 157 is through
ReconcileDone ==
    /\ pc = "reconcile"
    /\ rec_i > Len(recurring)
    /\ pc' = "budgets"
    /\ UNCHANGED <<transactions, budgets, recurring, uploaded, edit_index, index_len, bud_input,
                   now, ev, rec_i, pre_rec, form_shown, import_failed, updated, uncaught, status,
                   balance, inserted, upload_rows, probe, now_month, current_month>>

\* lines 174-180
BudgetStep ==
    /\ pc = "budgets"
    /\ budgets' = BudgetGoals(bud_input)
    /\ rec_i' = 1
    /\ pre_rec' = <<>>
    /\ now_month' = 0
    /\ pc' = "import"
    /\ UNCHANGED <<transactions, recurring, uploaded, edit_index, index_len, bud_input, now, ev,
                   form_shown, import_failed, updated, uncaught, status, balance, inserted,
                   upload_rows, probe, current_month>>

\* lines 204-216: the uploader returns the selected file on every pass
ImportStep ==
    /\ pc = "import"
    /\ IF uploaded # 0
       THEN LET r == Import(transactions, Files[uploaded])
            IN  /\ transactions' = r.store
                /\ import_failed' = r.failed
                /\ upload_rows' = upload_rows + Len(r.store) - Len(transactions)
       ELSE UNCHANGED <<transactions, import_failed, upload_rows>>
    /\ pc' = "edit"
    /\ UNCHANGED <<budgets, recurring, uploaded, edit_index, index_len, bud_input, now, ev, rec_i,
                   pre_rec, form_shown, updated, uncaught, status, balance, inserted, probe, now_month, current_month>>

\* lines 243-264.  An exception of lines 249-253 is not caught: the pass ends
\* there, with the session state as it is.
EditStep ==
    /\ pc = "edit"
    /\ index_len' = Len(transactions)
    /\ IF transactions = <<>>
       THEN /\ edit_index' = 0
            /\ pc' = "check"
            /\ UNCHANGED <<transactions, form_shown, updated, uncaught, ev>>
       ELSE LET k == IndexInput(transactions, edit_index, index_len)
                row == transactions[k + 1]
            IN  /\ edit_index' = k
                /\ IF EditFormRaises(row)
                   THEN /\ uncaught' = TRUE
                        /\ ev' = "none"
                        /\ pc' = "idle"
                        /\ UNCHANGED <<transactions, form_shown, updated>>
                   ELSE /\ form_shown' = TRUE
                        /\ updated' = (ev = "edit")
                        /\ \E e \in EditInputs :
                             transactions' =
                               IF ev = "edit"
                               THEN update_at(transactions, k,
                                      FormValues(row, transactions[edit_index + 1], e), now)
                               ELSE transactions
                        /\ ev' = "none"
                        /\ pc' = "check"
                        /\ UNCHANGED uncaught
    /\ UNCHANGED <<budgets, recurring, uploaded, bud_input, now, rec_i, pre_rec,
                   import_failed, status, balance, inserted, upload_rows, probe, now_month, current_month>>

\* lines 269-294
CheckStep ==
    /\ pc = "check"
    /\ current_month' = Period(now)
    /\ status' = BudgetCheck(transactions, budgets, Period(now))
    /\ pc' = "charts"
    /\ UNCHANGED <<transactions, budgets, recurring, uploaded, edit_index, index_len, bud_input,
                   now, ev, rec_i, pre_rec, form_shown, import_failed, updated, uncaught, balance,
                   inserted, upload_rows, probe, now_month>>

\* lines 299-341: the end of the script
ChartsStep ==
    /\ pc = "charts"
    /\ IF transactions # <<>>
       THEN balance' \in Balance(transactions)
       ELSE balance' = <<>>
    /\ pc' = "idle"
    /\ UNCHANGED <<transactions, budgets, recurring, uploaded, edit_index, index_len, bud_input,
                   now, ev, rec_i, pre_rec, form_shown, import_failed, updated, uncaught, status,
                   inserted, upload_rows, probe, now_month, current_month>>

Next ==
    \/ SubmitAdd \/ SubmitRecurring \/ SaveEdit \/ SetEditIndex \/ SetBudget
    \/ Upload \/ ClickReset \/ Interact \/ Tick
    \/ EnsureSchemaStep \/ ResetStep \/ AddStep \/ RecurringStep \/ ReconcileStep
    \/ ReconcileDone \/ BudgetStep \/ ImportStep \/ EditStep \/ CheckStep \/ ChartsStep

Spec == Init /\ [][Next]_vars

(***************************************************************************)
(* RulesSpec: the same session with the forms, the clock and the recurring *)
(* rules only (no upload, budget input, index input or reset), explored    *)
(* one row further, so that one pass can append a row for each of two      *)
(* rules next to rows of an earlier period.                                *)
(***************************************************************************)
RulesSubmitAdd == SubmitAddCap(MaxRows + 1)
RulesSubmitRecurring == SubmitRecurringCap(MaxRows + 1)
RulesSaveEdit == SaveEditCap(MaxRows + 1)
RulesInteract == InteractCap(MaxRows + 1)
RulesAddStep == AddStepCap(MaxRows + 1)
RulesRecurringStep == RecurringStepCap(MaxRows + 1)

RulesNext ==
    \/ RulesSubmitAdd \/ RulesSubmitRecurring \/ RulesSaveEdit \/ RulesInteract \/ Tick
    \/ EnsureSchemaStep \/ ResetStep \/ RulesAddStep \/ RulesRecurringStep
    \/ ReconcileStep \/ ReconcileDone \/ BudgetStep \/ ImportStep \/ EditStep
    \/ CheckStep \/ ChartsStep

RulesSpec == Init /\ [][RulesNext]_vars


(***************************************************************************)
(* ensure_schema on its own: SchemaSpec applies it once and then again to  *)
(* its own result, on every raw table of a bounded family.                 *)
(***************************************************************************)
Layouts ==
    { REQUIRED_COLS,
      <<"Amount", "Note", "Date", "Description", "Category", "Type">>,
      <<"Date", "Type", "Category", "Description">>,
      <<"Type", "Amount">>,
      <<"Note">>,
      <<>> }
DateCells == {Ts(1), [tag |-> "str", v |-> 1], [tag |-> "bad", v |-> 0], NaT}
AmountCells == {Num(1), [tag |-> "str", v |-> 1], [tag |-> "bad", v |-> 0], NaN}
TypeCells == {"Income", NA}

RawRows(cols) ==
    { [c \in Range(cols) |->
         CASE c = "Date" -> d
           [] c = "Amount" -> a
           [] c = "Type" -> t
           [] c = "Category" -> "Misc"
           [] OTHER -> "rent"] :
      d \in DateCells, a \in AmountCells, t \in TypeCells }

RawTables ==
    {NotAFrame} \cup
    UNION { UNION { {DataFrame(cols, rows) : rows \in [1 .. n -> RawRows(cols)]} :
                    n \in 0 .. MaxTableRows } :
            cols \in Layouts }

SchemaInit ==
    /\ transactions = <<>>
    /\ budgets = NoBudgets
    /\ recurring = <<>>
    /\ uploaded = 0
    /\ edit_index = 0
    /\ index_len = 0
    /\ bud_input = NoBudgets
    /\ now = 1
    /\ pc = "probe"
    /\ ev = "none"
    /\ rec_i = 1
    /\ pre_rec = <<>>
    /\ form_shown = FALSE
    /\ import_failed = FALSE
    /\ updated = FALSE
    /\ uncaught = FALSE
    /\ status = NoStatus
    /\ balance = <<>>
    /\ inserted = <<>>
    /\ upload_rows = 0
    /\ now_month = 0
    /\ current_month = 0
    /\ \E t \in RawTables : probe = [NoProbe EXCEPT !.T = t]

session == <<transactions, budgets, recurring, uploaded, edit_index, index_len,
             bud_input, now, pc, ev, rec_i, pre_rec, form_shown, import_failed,
             updated, uncaught, status, balance, inserted, upload_rows,
             now_month, current_month>>

EnforceOnce ==
    /\ probe.stage = 0
    /\ probe' = [probe EXCEPT !.stage = 1, !.once = ensure_schema(probe.T)]
    /\ UNCHANGED session

EnforceTwice ==
    /\ probe.stage = 1
    /\ probe' = [probe EXCEPT !.stage = 2, !.twice = ensure_schema(probe.once)]
    /\ UNCHANGED session

SchemaNext == EnforceOnce \/ EnforceTwice

SchemaSpec == SchemaInit /\ [][SchemaNext]_vars


(***************************************************************************)
(* Properties.                                                             *)
(***************************************************************************)
\* the fields a rule gives the row appended for it
Fields(r) == [Type |-> r.Type, Category |-> r.Category,
              Description |-> r.Description, Amount |-> Num(r.Amount)]
\* a row built from rule r and dated by a reading of the clock during the loop
IsRuleRow(row, r) ==
    /\ [Type |-> row.Type, Category |-> row.Category,
        Description |-> row.Description, Amount |-> row.Amount] = Fields(r)
    /\ row.Date.tag = "ts"
    /\ row.Date.v <= now
    /\ Period(row.Date.v) >= now_month
\* the store holds a transaction dated in period p with the rule's description
\* and category
HasMatch(store, r, p) ==
    \E k \in DOMAIN store :
        /\ store[k].Description = r.Description
        /\ store[k].Category = r.Category
        /\ store[k].Date.tag = "ts"
        /\ (store[k].Date.v + 1) \div 2 = p
SamePair(r1, r2) == r1.Description = r2.Description /\ r1.Category = r2.Category
\* the rows the reconciliation loop has appended in the running pass
AppendedAt == (Len(pre_rec) + 1) .. Len(transactions)
\* the rows among them with the pair of rule r
AppendedFor(r) == {j \in AppendedAt : SamePair(transactions[j], r)}
\* the first rule in list order with the pair of rule k
FirstWithPair(k) ==
    recurring[CHOOSE i \in DOMAIN recurring :
                /\ SamePair(recurring[i], recurring[k])
                /\ \A j \in 1 .. (i - 1) : ~SamePair(recurring[j], recurring[k])]
\* sum of the non-null amounts of the rows of one Type
TotalOf(kind) ==
    LET keep(r) == r.Type = kind IN SumAmount(SelectSeq(transactions, keep))
\* sum of the Expense amounts of one category dated in the period of line 270
PeriodExpenses(c) ==
    LET keep(r) == /\ r.Type = "Expense" /\ r.Category = c
                   /\ r.Date.tag = "ts" /\ (r.Date.v + 1) \div 2 = current_month
    IN  SumAmount(SelectSeq(transactions, keep))

\* C1: within one period reconciliation appends at most one row per rule,
\* whatever add, edit or import happens between the passes.
C1_AtMostOneInsertion == \A k \in DOMAIN inserted : inserted[k] <= 1

\* C2: the last element of the cumulative balance series equals the sum of the
\* Income amounts minus the sum of the Expense amounts of the whole store.
C2_BalanceLast ==
    (pc = "idle" /\ balance # <<>>) =>
        balance[Len(balance)] = Num(TotalOf("Income") - TotalOf("Expense"))

\* C3: after Budget Check every category with a positive limit has exactly one
\* status, over iff its Expense amounts of the period exceed the limit and
\* within otherwise; a category without a limit has none.
C3_BudgetStatus ==
    pc = "charts" =>
        \A c \in Cats :
            status[c] = IF budgets[c] > 0
                        THEN (IF PeriodExpenses(c) > budgets[c] THEN "over" ELSE "within")
                        ELSE "none"

\* C4: an import that fails (the reader raises on the uploaded bytes) is caught
\* and reported, the pass goes on, and the store is the one the import found.
C4_FailedImportKeepsStore ==
    [][ (pc = "import" /\ uploaded # 0 /\ now' = now) =>
          LET f == Files[uploaded]
              parses == IF f.name[Len(f.name)] = "csv"
                        THEN f.content = "csv" ELSE f.content = "xlsx"
          IN  /\ ~parses => import_failed'
              /\ import_failed' =>
                    /\ transactions' = transactions
                    /\ ~uncaught'
                    /\ pc' = "edit" ]_vars

C4_Witness == pc = "edit" /\ import_failed /\ transactions # <<>>

\* C5: the edit section never changes the number of rows; the add form, the
\* reconciliation loop and the import never decrease it.
C5_RowCounts ==
    [][ /\ pc = "edit" => Len(transactions') = Len(transactions)
        /\ pc \in {"add", "reconcile", "import"} => Len(transactions') >= Len(transactions)
      ]_vars

C5_Witness ==
    /\ pc = "check" /\ updated /\ Len(transactions) = MaxRows
    /\ edit_index = Len(transactions) - 1
    /\ transactions[edit_index + 1].Description = "gym"

\* C6: ensure_schema applied to its own result changes nothing, and its result
\* has the five columns in order, one row per input row, text cells as they
\* were, dates and amounts parsed, and the null marker for what does not parse.
C6_SchemaIdempotent ==
    probe.stage = 2 =>
        /\ probe.twice = probe.once
        /\ probe.once.columns = REQUIRED_COLS
        /\ Len(probe.once.rows) = Len(probe.T.rows)
        /\ \A i \in DOMAIN probe.once.rows :
             LET r == probe.once.rows[i]
                 raw == probe.T.rows[i]
                 has(c) == c \in DOMAIN raw
             IN  /\ DOMAIN r = Range(REQUIRED_COLS)
                 /\ r.Date = IF has("Date") /\ raw["Date"].tag \in {"ts", "str"}
                             THEN Ts(raw["Date"].v) ELSE NaT
                 /\ r.Amount = IF has("Amount") /\ raw["Amount"].tag \in {"num", "str"}
                               THEN Num(raw["Amount"].v) ELSE NaN
                 /\ \A c \in {"Type", "Category", "Description"} :
                      r[c] = IF has(c) THEN raw[c] ELSE NA

C6_Witness ==
    /\ probe.stage = 2
    /\ probe.T.columns = <<"Amount", "Note", "Date", "Description", "Category", "Type">>
    /\ Len(probe.T.rows) = MaxTableRows
    /\ probe.T.rows[1]["Date"].tag = "bad"
    /\ probe.T.rows[1]["Amount"].tag = "str"
    /\ probe.once.rows[1].Date = NaT

\* C7: no pass ends in an uncaught error; the edit form is built for every
\* position the index input offers.
C7_NoUncaughtError == ~uncaught

\* C8 as stated: after the reconciliation loop every rule has a matching row in
\* the current period (the one the loop computed, or the one the clock has
\* moved into since), and a rule that had none before the loop has had exactly
\* one row appended with its own kind, category, amount and description.
C8_OwnRowAppended ==
    pc = "budgets" =>
        \A k \in DOMAIN recurring :
            /\ \E p \in now_month .. ((now + 1) \div 2) :
                    HasMatch(transactions, recurring[k], p)
            /\ ~HasMatch(pre_rec, recurring[k], now_month) =>
                 /\ SubSeq(transactions, 1, Len(pre_rec)) = pre_rec
                 /\ Cardinality({j \in AppendedAt :
                                   IsRuleRow(transactions[j], recurring[k])}) = 1

\* C8 as amended: the loop leaves the rows it found where they were, and every
\* rule has a row with its description and category that is dated in the period
\* of the loop's label or was appended by the loop.  For a rule that had no such
\* row in that period before the loop, the first row with its pair appended by
\* the loop is built from the first rule in list order with that pair, and it
\* is the only one when it is dated in the period of the label.
C8_FirstRuleRowAppended ==
    pc = "budgets" =>
        /\ SubSeq(transactions, 1, Len(pre_rec)) = pre_rec
        /\ \A k \in DOMAIN recurring :
            /\ HasMatch(transactions, recurring[k], now_month)
                  \/ AppendedFor(recurring[k]) # {}
            /\ ~HasMatch(pre_rec, recurring[k], now_month) =>
                 /\ AppendedFor(recurring[k]) # {}
                 /\ LET first == CHOOSE j \in AppendedFor(recurring[k]) :
                                    \A i \in AppendedFor(recurring[k]) : j <= i
                    IN  /\ IsRuleRow(transactions[first], FirstWithPair(k))
                        /\ (transactions[first].Date.v + 1) \div 2 = now_month =>
                              Cardinality(AppendedFor(recurring[k])) = 1

C8_Witness ==
    /\ pc = "budgets"
    /\ Len(recurring) = 2
    /\ ~SamePair(recurring[1], recurring[2])
    /\ pre_rec # <<>>
    /\ Len(transactions) = Len(pre_rec) + 2

\* C9: of two distinct rules with the same (description, category) pair only the
\* first in list order ever has a row appended: when the period has no matching
\* row the loop appends exactly one, built from the first rule, and the second
\* rule appends none, in that pass or any later one.
C9_SecondRuleSuppressed ==
    \A i, j \in DOMAIN recurring :
        ( /\ i < j
          /\ recurring[i] # recurring[j]
          /\ SamePair(recurring[i], recurring[j])
          /\ \A h \in 1 .. (i - 1) : ~SamePair(recurring[h], recurring[i]) ) =>
            /\ inserted[j] = 0
            /\ (pc = "budgets" /\ ~HasMatch(pre_rec, recurring[i], now_month)) =>
                 /\ Cardinality(AppendedFor(recurring[i])) = 1
                 /\ \A m \in AppendedFor(recurring[i]) :
                      IsRuleRow(transactions[m], recurring[i])

\* C10: while one file stays selected in the uploader its rows are in the store
\* once: the store has grown by the file's row count for that upload.
C10_ImportedOnce ==
    (pc = "idle" /\ uploaded # 0 /\ ~import_failed) =>
        upload_rows = Len(Files[uploaded].table.rows)

=============================================================================
